---- MODULE Spec2Model ----
(***************************************************************************)
(* A model of duckdbfastapi/main.py: startup (run_fastapi, _get_data_path,  *)
(* _get_items_to_process), endpoint creation over a data directory         *)
(* (_create_endpoints) and the request handlers it registers (read_file,   *)
(* get_column_info, read_parquet_folder, get_parquet_folder_column_info,   *)
(* read_directory).                                                        *)
(*                                                                         *)
(* File and directory names are sequences of one-character strings, so     *)
(* that Path.suffix and the route-name derivation are computed, not        *)
(* assumed.  A path is the sequence of name components below the data      *)
(* directory.  The query engine (duckdb) and json.load are modelled by     *)
(* what they return for the files of a fixed sample data directory.        *)
(***************************************************************************)
EXTENDS Integers, Sequences, FiniteSets, TLC

(***************************************************************************)
(* Bounds of the model.                                                    *)
(***************************************************************************)
MaxItems == 2
MaxPage == 3
MaxSmallPageSize == 3
MaxOpenConnections == 1

(***************************************************************************)
(* Program constants.                                                      *)
(***************************************************************************)
JsonSmallLimit == 100
PageSizeLimit == 1000
MaxPort == 65535
DefaultPort == 8000

(***************************************************************************)
(* Strings as character sequences.                                         *)
(***************************************************************************)
UpperChars == <<"A", "B", "C", "D", "E", "F", "G", "H", "I", "J", "K", "L", "M",
                "N", "O", "P", "Q", "R", "S", "T", "U", "V", "W", "X", "Y", "Z">>
LowerChars == <<"a", "b", "c", "d", "e", "f", "g", "h", "i", "j", "k", "l", "m",
                "n", "o", "p", "q", "r", "s", "t", "u", "v", "w", "x", "y", "z">>

\* str.lower() on one character
LowerChar(c) ==
    IF \E i \in 1..Len(UpperChars) : UpperChars[i] = c
    THEN LowerChars[CHOOSE i \in 1..Len(UpperChars) : UpperChars[i] = c]
    ELSE c

\* str.replace(old, new) for a one-character old
ReplaceChar(s, old, new) == [i \in 1..Len(s) |-> IF s[i] = old THEN new ELSE s[i]]

\* str.lower()
Lower(s) == [i \in 1..Len(s) |-> LowerChar(s[i])]

\* a variant of ItemName that leaves hyphens alone
ItemNameSpacesOnly(name) == ReplaceChar(Lower(name), " ", "_")

\* item.name.lower().replace(" ", "_").replace("-", "_")
ItemName(name) == ReplaceChar(ReplaceChar(Lower(name), " ", "_"), "-", "_")

\* str.rfind("."), 1-based, 0 when there is no dot
RFindDot(s) ==
    IF \E i \in 1..Len(s) : s[i] = "."
    THEN CHOOSE i \in 1..Len(s) : s[i] = "." /\ \A j \in (i+1)..Len(s) : s[j] # "."
    ELSE 0

\* pathlib's PurePath.suffix: the last dot and what follows it, unless the dot
\* is the first or the last character of the name
Suffix(name) ==
    LET i == RFindDot(name)
    IN  IF 1 < i /\ i < Len(name) THEN SubSeq(name, i, Len(name)) ELSE <<>>

ExtJson == <<".", "j", "s", "o", "n">>
ExtCsv == <<".", "c", "s", "v">>
ExtTsv == <<".", "t", "s", "v">>
ExtTxt == <<".", "t", "x", "t">>
ExtParquet == <<".", "p", "a", "r", "q", "u", "e", "t">>

\* the list without the text extensions
SuffixesWithoutText == {ExtJson, ExtCsv, ExtParquet}

\* the list [".json", ".csv", ".tsv", ".txt", ".parquet"]
SupportedSuffixes == {ExtJson, ExtCsv, ExtTsv, ExtTxt, ExtParquet}

DataPrefix == <<"/", "d", "a", "t", "a", "/">>
ColumnNamesTail == <<"_", "c", "o", "l", "u", "m", "n", "n", "a", "m", "e", "s">>

(***************************************************************************)
(* JSON documents as json.load returns them: a dict (keys k, values v), a  *)
(* list (elements v) or a scalar (s).                                      *)
(***************************************************************************)
JScalar(n) == [t |-> "scalar", k |-> <<>>, v |-> <<>>, s |-> n]
JList(elems) == [t |-> "list", k |-> <<>>, v |-> elems, s |-> 0]
JDict(keys, vals) == [t |-> "dict", k |-> keys, v |-> vals, s |-> 0]

RECURSIVE count_nested(_)
RECURSIVE SumCounts(_, _, _)
\* sum(count_nested(x) for x in vals[lo..hi]), the range halved at each step
SumCounts(vals, lo, hi) ==
    IF lo > hi THEN 0
    ELSE IF lo = hi THEN count_nested(vals[lo])
    ELSE LET mid == (lo + hi) \div 2
         IN  SumCounts(vals, lo, mid) + SumCounts(vals, mid + 1, hi)

\* a variant of count_nested in which a list does not count its length
CountNestedLeaves(o) ==
    IF o.t \in {"dict", "list"} THEN SumCounts(o.v, 1, Len(o.v)) ELSE 1

\* _count_json_items.count_nested
count_nested(o) ==
    IF o.t = "dict" THEN SumCounts(o.v, 1, Len(o.v))
    ELSE IF o.t = "list" THEN Len(o.v) + SumCounts(o.v, 1, Len(o.v))
    ELSE 1

Max(a, b) == IF a >= b THEN a ELSE b
Min(a, b) == IF a <= b THEN a ELSE b

RECURSIVE MaxNestedOfAllValues(_, _)
\* a variant of MaxNestedOfValues without the isinstance test
MaxNestedOfAllValues(vals, n) ==
    IF n = 0 THEN 0
    ELSE Max(MaxNestedOfAllValues(vals, n - 1), count_nested(vals[n]))

RECURSIVE MaxNestedOfValues(_, _)
\* the loop "for v in obj.values()" of _count_json_items, over the first n values
MaxNestedOfValues(vals, n) ==
    IF n = 0 THEN 0
    ELSE LET rest == MaxNestedOfValues(vals, n - 1)
         IN  IF vals[n].t \in {"dict", "list"}
             THEN Max(rest, count_nested(vals[n]))
             ELSE rest

\* _count_json_items: (total_count, max_nested_count)
_count_json_items(obj) ==
    [total |-> count_nested(obj),
     max_nested |-> IF obj.t = "dict" THEN MaxNestedOfValues(obj.v, Len(obj.v))
                    ELSE IF obj.t = "list" THEN Len(obj.v)
                    ELSE 0]

(***************************************************************************)
(* What the query engine sees in a file: a table (column descriptors and   *)
(* rows, a cell being <<v>> or <<>> for NULL), or a failure.  bad_row is   *)
(* the number of the first row the engine cannot convert (0 when there is  *)
(* none): a scan that has to read up to that row fails, a count does not.  *)
(***************************************************************************)
BadTable == [ok |-> FALSE, cols |-> <<>>, rows |-> <<>>, bad_row |-> 0]
NoDoc == [ok |-> FALSE, doc |-> JScalar(0)]

ColId == [name |-> <<"i", "d">>, type |-> "BIGINT"]
ColName == [name |-> <<"n", "a", "m", "e">>, type |-> "VARCHAR"]
ColNote == [name |-> <<"n", "o", "t", "e">>, type |-> "VARCHAR"]
\* a header that is not one SQL identifier
ColMyCol == [name |-> <<"m", "y", " ", "c", "o", "l">>, type |-> "BIGINT"]
IdNameCols == <<ColId, ColName>>

\* a table of n rows whose row i holds the cells (base + i, i)
Table(base, n) ==
    [ok |-> TRUE, cols |-> IdNameCols,
     rows |-> [i \in 1..n |-> << <<base + i>>, <<i>> >>], bad_row |-> 0]

\* three columns: the first never NULL, the second NULL in the first row only,
\* the third NULL in every row
NullsTable ==
    [ok |-> TRUE, cols |-> <<ColId, ColName, ColNote>>,
     rows |-> << << <<1>>, <<>>, <<>> >>, << <<2>>, <<7>>, <<>> >> >>, bad_row |-> 0]

\* a table whose second column name holds a space
SpacedTable ==
    [ok |-> TRUE, cols |-> <<ColId, ColMyCol>>,
     rows |-> << << <<1>>, <<5>> >>, << <<2>>, <<6>> >> >>, bad_row |-> 0]

\* a table whose third row cannot be converted
LateBadTable == [Table(700, 4) EXCEPT !.bad_row = 3]

(***************************************************************************)
(* The sample data directory.  An entry is a regular file, a directory     *)
(* (with its children in iterdir order) or something that is neither.      *)
(***************************************************************************)
FileEntry(name, table, json) ==
    [name |-> name, type |-> "file", table |-> table, json |-> json, children |-> <<>>]
DirEntry(name, children) ==
    [name |-> name, type |-> "dir", table |-> BadTable, json |-> NoDoc, children |-> children]
OtherEntry(name) ==
    [name |-> name, type |-> "other", table |-> BadTable, json |-> NoDoc, children |-> <<>>]
Missing ==
    [name |-> <<>>, type |-> "missing", table |-> BadTable, json |-> NoDoc, children |-> <<>>]

Doc(d) == [ok |-> TRUE, doc |-> d]
Scalars(n) == [i \in 1..n |-> JScalar(i)]
EmptyDicts(n) == [i \in 1..n |-> JDict(<<>>, <<>>)]
JsonTable == [ok |-> TRUE, cols |-> <<[name |-> <<"j", "s", "o", "n">>, type |-> "JSON"]>>,
              rows |-> << << <<1>> >> >>, bad_row |-> 0]

Shard1 == FileEntry(<<"s", "1">> \o ExtParquet, Table(10, 3), NoDoc)
Shard2 == FileEntry(<<"s", "2">> \o ExtParquet, Table(20, 3), NoDoc)
Shard3 == FileEntry(<<"s", "3">> \o ExtParquet, Table(30, 2), NoDoc)
Notes == FileEntry(<<"n">> \o ExtTxt, Table(40, 4), NoDoc)
SubDir == DirEntry(<<"s", "u", "b">>, <<Shard1>>)
DirNamedParquet == DirEntry(<<"z">> \o ExtParquet, <<>>)

CsvLower == FileEntry(<<"a">> \o ExtCsv, Table(100, 5), NoDoc)
CsvUpperName == FileEntry(<<"A">> \o ExtCsv, Table(200, 2), NoDoc)
TsvFile == FileEntry(<<"b">> \o ExtTsv, Table(300, 3), NoDoc)
TxtFile == FileEntry(<<"c">> \o ExtTxt, Table(400, 1), NoDoc)
ParquetFile == FileEntry(<<"d">> \o ExtParquet, Table(500, 0), NoDoc)
BrokenCsv == FileEntry(<<"x">> \o ExtCsv, BadTable, NoDoc)
BrokenJson == FileEntry(<<"j">> \o ExtJson, BadTable, NoDoc)
NullsCsv == FileEntry(<<"u">> \o ExtCsv, NullsTable, NoDoc)
SpacedCsv == FileEntry(<<"w">> \o ExtCsv, SpacedTable, NoDoc)
LateBadCsv == FileEntry(<<"y">> \o ExtCsv, LateBadTable, NoDoc)
SmallListJson == FileEntry(<<"s">> \o ExtJson, JsonTable, Doc(JList(Scalars(3))))
SmallDictJson ==
    FileEntry(<<"k">> \o ExtJson, JsonTable,
              Doc(JDict(<<"a", "b">>, <<JScalar(1), JList(Scalars(2))>>)))
\* a dict whose values are all scalars
FlatDictJson ==
    FileEntry(<<"f">> \o ExtJson, JsonTable,
              Doc(JDict(<<"a", "b">>, <<JScalar(1), JScalar(2)>>)))
ScalarJson == FileEntry(<<"v">> \o ExtJson, JsonTable, Doc(JScalar(7)))
\* a list whose structural count is exactly the limit
LimitListJson == FileEntry(<<"e">> \o ExtJson, JsonTable, Doc(JList(EmptyDicts(JsonSmallLimit))))
\* a list shorter than the limit whose structural count is above it
MidListJson ==
    FileEntry(<<"m">> \o ExtJson, JsonTable, Doc(JList(Scalars((JsonSmallLimit \div 2) + 1))))
\* a list longer than the limit
LongListJson ==
    FileEntry(<<"l">> \o ExtJson, JsonTable, Doc(JList(EmptyDicts(JsonSmallLimit + 1))))
\* a dict holding a list longer than the limit
BigDictJson ==
    FileEntry(<<"o">> \o ExtJson, JsonTable,
              Doc(JDict(<<"a">>, <<JList(Scalars(JsonSmallLimit + 1))>>)))
UpperExtCsv == FileEntry(<<"H", ".", "C", "S", "V">>, Table(600, 2), NoDoc)
LogFile == FileEntry(<<"n", ".", "l", "o", "g">>, BadTable, NoDoc)
\* a file named ".json": pathlib gives it no suffix
DotJson == FileEntry(ExtJson, JsonTable, Doc(JList(Scalars(1))))
ShardDir == DirEntry(<<"p", "q">>, <<Notes, Shard1, Shard2, Shard3>>)
OneShardDir == DirEntry(<<"p", "-", "1">>, <<Shard1>>)
\* a folder without Parquet files, its entries in the order iterdir() yields them
PlainDir == DirEntry(<<"M", "y", " ", "D", "i", "r">>, <<SubDir, Notes, DirNamedParquet>>)
EmptyDir == DirEntry(<<"e", "m", "p", "t", "y">>, <<>>)
Fifo == OtherEntry(<<"f", "i", "f", "o">>)

DataDir ==
    <<CsvLower, CsvUpperName, TsvFile, TxtFile, ParquetFile, BrokenCsv, BrokenJson, NullsCsv,
      SpacedCsv, LateBadCsv, SmallListJson, SmallDictJson, ScalarJson, LimitListJson,
      MidListJson, LongListJson, BigDictJson, UpperExtCsv, LogFile, DotJson, ShardDir,
      OneShardDir, PlainDir, EmptyDir, Fifo, FlatDictJson>>

\* the entry a path (name components below the data directory) leads to
RECURSIVE Resolve(_, _)
Resolve(entries, path) ==
    IF path = <<>> \/ ~\E i \in 1..Len(entries) : entries[i].name = Head(path)
    THEN Missing
    ELSE LET e == entries[CHOOSE i \in 1..Len(entries) : entries[i].name = Head(path)]
         IN  IF Len(path) = 1 THEN e ELSE Resolve(e.children, Tail(path))

Lookup(path) == Resolve(DataDir, path)

\* Path.name, Path.suffix, Path.is_file(), Path.is_dir() of a path
PathName(path) == IF path = <<>> THEN <<>> ELSE path[Len(path)]
PathSuffix(path) == Suffix(PathName(path))
IsFile(path) == Lookup(path).type = "file"
IsDir(path) == Lookup(path).type = "dir"

\* a variant of _has_parquet_files without the is_file() test
HasParquetEntries(folder_path) ==
    IF ~IsDir(folder_path) THEN FALSE
    ELSE LET ch == Lookup(folder_path).children
         IN  \E i \in 1..Len(ch) : Suffix(ch[i].name) = ExtParquet

\* _has_parquet_files
_has_parquet_files(folder_path) ==
    IF ~IsDir(folder_path) THEN FALSE
    ELSE LET ch == Lookup(folder_path).children
         IN  \E i \in 1..Len(ch) : ch[i].type = "file" /\ Suffix(ch[i].name) = ExtParquet

(***************************************************************************)
(* The query engine at its boundary: what a FROM clause denotes, and the   *)
(* two queries the handlers issue against it.                              *)
(***************************************************************************)
\* read_csv_auto('{item_path}'), read_csv_auto('{item_path}', sep='\t'),
\* read_json_auto('{item_path}') and '{item_path}': the table of a regular file
FileTable(item_path) ==
    IF IsFile(item_path) THEN Lookup(item_path).table ELSE BadTable

EndsWithParquet(name) ==
    /\ Len(name) >= Len(ExtParquet)
    /\ SubSeq(name, Len(name) - Len(ExtParquet) + 1, Len(name)) = ExtParquet

RECURSIVE ConcatRows(_)
ConcatRows(shards) ==
    IF shards = <<>> THEN <<>> ELSE Head(shards).table.rows \o ConcatRows(Tail(shards))

\* a variant of GlobTable that reads every file of the folder
GlobTableAllFiles(item_path) ==
    LET IsAnyFile(e) == e.type = "file"
        shards == SelectSeq(Lookup(item_path).children, IsAnyFile)
    IN  IF shards = <<>> \/ \E i \in 1..Len(shards) : ~shards[i].table.ok
        THEN BadTable
        ELSE [ok |-> TRUE, cols |-> shards[1].table.cols, rows |-> ConcatRows(shards),
              bad_row |-> 0]

\* '{item_path}/*.parquet': the files of the folder the glob matches, read as one
\* table in glob order; no match, or a shard that cannot be read, is a failure
GlobTable(item_path) ==
    LET IsShard(e) == e.type = "file" /\ EndsWithParquet(e.name)
        shards == SelectSeq(Lookup(item_path).children, IsShard)
    IN  IF shards = <<>> \/ \E i \in 1..Len(shards) : ~shards[i].table.ok
        THEN BadTable
        ELSE [ok |-> TRUE, cols |-> shards[1].table.cols, rows |-> ConcatRows(shards),
              bad_row |-> 0]

\* SELECT COUNT(*) as cnt FROM <source>, fetchall()
ExecCount(t) == [ok |-> t.ok, rows |-> << <<Len(t.rows)>> >>]

\* the engine can read the first n rows of the source
CanScan(t, n) == t.ok /\ (t.bad_row = 0 \/ n < t.bad_row)

\* a variant of ExecSelect that drops the OFFSET clause
ExecSelectNoOffset(t, limit, offset) ==
    [ok |-> CanScan(t, offset + limit),
     rows |-> SubSeq(t.rows, 1, Min(limit, Len(t.rows))),
     description |-> t.cols]

\* SELECT * FROM <source> LIMIT {limit} OFFSET {offset}, fetchall() and description
ExecSelect(t, limit, offset) ==
    [ok |-> CanScan(t, offset + limit),
     rows |-> SubSeq(t.rows, offset + 1, Min(offset + limit, Len(t.rows))),
     description |-> t.cols]

\* a variant of Slice that takes one element more
SliceOneMore(list, offset, page_size) ==
    SubSeq(list, offset + 1, Min(offset + page_size + 1, Len(list)))

\* list slicing data_list[offset : offset + page_size]
Slice(list, offset, page_size) ==
    SubSeq(list, offset + 1, Min(offset + page_size, Len(list)))

\* dict(zip(columns, row))
RowDict(columns, row) ==
    LET n == Min(Len(columns), Len(row))
    IN  [c \in {columns[i] : i \in 1..n} |->
            row[CHOOSE i \in 1..n : columns[i] = c /\ \A j \in (i+1)..n : columns[j] # c]]

\* a variant of Offset that counts pages from zero
OffsetFromPage(page, page_size) == page * page_size

\* (page - 1) * page_size
Offset(page, page_size) == (page - 1) * page_size

\* a variant of HasNext that also reports a next page when the page ends at the total
HasNextInclusive(offset, page_size, total) == offset + page_size <= total

\* offset + page_size < total
HasNext(offset, page_size, total) == offset + page_size < total

(***************************************************************************)
(* Responses.  Every response is a record of one shape; the fields a kind  *)
(* of response does not carry hold NoData, <<>> or 0.  The "data" of the   *)
(* small-JSON response is a whole document and is held in doc; every other *)
(* "data" is a list and is held in data.                                   *)
(***************************************************************************)
NoData == <<>>
BlankResponse ==
    [kind |-> "none", data |-> NoData, doc |-> JScalar(0), columns |-> <<>>, count |-> 0,
     page |-> 0, page_size |-> 0, total |-> 0, has_next |-> FALSE]

\* raise HTTPException(status_code=500, ...)
ErrorResponse == [BlankResponse EXCEPT !.kind = "error"]

\* a variant of IsSmallJson with strict comparisons
IsSmallJsonStrict(total_count, max_nested) ==
    total_count < JsonSmallLimit /\ max_nested < JsonSmallLimit

\* total_count <= 100 and max_nested <= 100
IsSmallJson(total_count, max_nested) ==
    total_count <= JsonSmallLimit /\ max_nested <= JsonSmallLimit

\* a variant of ReadJson that pages a large dict by its values
ReadJsonDictValues(item_path, page, page_size) ==
    LET f == Lookup(item_path)
    IN  IF f.type # "file" \/ ~f.json.ok THEN ErrorResponse
        ELSE
        LET json_data == f.json.doc
            counted == _count_json_items(json_data)
        IN  IF IsSmallJson(counted.total, counted.max_nested)
            THEN [BlankResponse EXCEPT !.kind = "json_full", !.doc = json_data,
                      !.count = counted.total, !.page = 1, !.page_size = counted.total,
                      !.total = counted.total, !.has_next = FALSE]
            ELSE
            LET data_list == IF json_data.t = "scalar" THEN <<json_data>> ELSE json_data.v
                offset == Offset(page, page_size)
                paginated_data == Slice(data_list, offset, page_size)
            IN  [BlankResponse EXCEPT !.kind = "json_page", !.data = paginated_data,
                      !.count = Len(paginated_data), !.page = page,
                      !.page_size = page_size, !.total = Len(data_list),
                      !.has_next = HasNext(offset, page_size, Len(data_list))]

\* the JSON branch of read_file
ReadJson(item_path, page, page_size) ==
    LET f == Lookup(item_path)
    IN  IF f.type # "file" \/ ~f.json.ok THEN ErrorResponse
        ELSE
        LET json_data == f.json.doc
            counted == _count_json_items(json_data)
            total_count == counted.total
            max_nested == counted.max_nested
        IN  IF IsSmallJson(total_count, max_nested)
            THEN [BlankResponse EXCEPT !.kind = "json_full", !.doc = json_data,
                      !.count = total_count, !.page = 1, !.page_size = total_count,
                      !.total = total_count, !.has_next = FALSE]
            ELSE
            LET data_list == IF json_data.t = "list" THEN json_data.v ELSE <<json_data>>
                total == Len(data_list)
                offset == Offset(page, page_size)
                paginated_data == Slice(data_list, offset, page_size)
            IN  [BlankResponse EXCEPT !.kind = "json_page", !.data = paginated_data,
                      !.count = Len(paginated_data), !.page = page,
                      !.page_size = page_size, !.total = total,
                      !.has_next = HasNext(offset, page_size, total)]

\* the two-query branches of read_file and read_parquet_folder over source t
ReadTable(t, page, page_size) ==
    LET total_result == ExecCount(t)
    IN  IF ~total_result.ok THEN ErrorResponse
        ELSE
        LET total_count == IF total_result.rows # <<>> THEN total_result.rows[1][1] ELSE 0
            offset == Offset(page, page_size)
            result == ExecSelect(t, page_size, offset)
        IN  IF ~result.ok THEN ErrorResponse
            ELSE
            LET columns == [i \in 1..Len(result.description) |-> result.description[i].name]
                data_list == [i \in 1..Len(result.rows) |-> RowDict(columns, result.rows[i])]
            IN  [BlankResponse EXCEPT !.kind = "table", !.data = data_list,
                      !.columns = columns, !.count = Len(data_list), !.page = page,
                      !.page_size = page_size, !.total = total_count,
                      !.has_next = HasNext(offset, page_size, total_count)]

\* the two-query branches when the source is written between the queries: the
\* count query reads t, the page query t2
ReadTableWhileWritten(t, t2, page, page_size) ==
    LET total_result == ExecCount(t)
    IN  IF ~total_result.ok THEN ErrorResponse
        ELSE
        LET total_count == IF total_result.rows # <<>> THEN total_result.rows[1][1] ELSE 0
            offset == Offset(page, page_size)
            result == ExecSelect(t2, page_size, offset)
        IN  IF ~result.ok THEN ErrorResponse
            ELSE
            LET columns == [i \in 1..Len(result.description) |-> result.description[i].name]
                data_list == [i \in 1..Len(result.rows) |-> RowDict(columns, result.rows[i])]
            IN  [BlankResponse EXCEPT !.kind = "table", !.data = data_list,
                      !.columns = columns, !.count = Len(data_list), !.page = page,
                      !.page_size = page_size, !.total = total_count,
                      !.has_next = HasNext(offset, page_size, total_count)]

\* read_file
read_file(item_path, page, page_size) ==
    LET suffix == PathSuffix(item_path)
    IN  IF suffix = ExtJson THEN ReadJson(item_path, page, page_size)
        ELSE IF suffix = ExtCsv THEN ReadTable(FileTable(item_path), page, page_size)
        ELSE IF suffix \in {ExtTsv, ExtTxt} THEN ReadTable(FileTable(item_path), page, page_size)
        ELSE IF suffix = ExtParquet THEN ReadTable(FileTable(item_path), page, page_size)
        ELSE [BlankResponse EXCEPT !.kind = "unsupported"]

\* read_parquet_folder
read_parquet_folder(item_path, page, page_size) ==
    ReadTable(GlobTable(item_path), page, page_size)

(***************************************************************************)
(* Schema introspection.                                                   *)
(***************************************************************************)
DigitChars == <<"0", "1", "2", "3", "4", "5", "6", "7", "8", "9">>
NullText == <<"N", "U", "L", "L">>
UnknownType == "unknown"

\* str() of a non-negative integer
RECURSIVE Str(_)
Str(n) ==
    IF n < 10 THEN <<DigitChars[n + 1]>>
    ELSE Str(n \div 10) \o <<DigitChars[(n % 10) + 1]>>

\* Python values of a descriptor's example_value: a str, or None
PyStr(chars) == [type |-> "str", chars |-> chars]
PyNone == [type |-> "NoneType", chars |-> <<>>]

Range(seq) == {seq[i] : i \in 1..Len(seq)}

\* the engine reads the unquoted text as one column name: letters, digits and
\* underscores, not starting with a digit
IsBareIdentifier(name) ==
    /\ name # <<>>
    /\ \A i \in 1..Len(name) :
           name[i] \in Range(LowerChars) \cup Range(UpperChars) \cup Range(DigitChars) \cup {"_"}
    /\ name[1] \notin Range(DigitChars)

\* SELECT {col_name} FROM (<source>) LIMIT 1, fetchall(): the cell of column i
\* in the first row the engine returns
ExecExample(t, i) ==
    [ok |-> CanScan(t, 1) /\ IsBareIdentifier(t.cols[i].name),
     rows |-> [r \in 1..Min(1, Len(t.rows)) |-> <<t.rows[r][i]>>]]

\* a variant of ExampleCell that looks for the first row whose cell is not NULL
ExampleCellFirstNonNull(t, i) ==
    IF \E r \in 1..Len(t.rows) : t.rows[r][i] # <<>>
    THEN t.rows[CHOOSE r \in 1..Len(t.rows) :
                    t.rows[r][i] # <<>> /\ \A q \in 1..(r - 1) : t.rows[q][i] = <<>>][i]
    ELSE <<>>

\* result[0][0] if result and result[0] else None, a cell being <<v>> or <<>>
ExampleCell(t, i) ==
    LET result == ExecExample(t, i).rows
    IN  IF result # <<>> /\ result[1] # <<>> THEN result[1][1] ELSE <<>>

\* a variant of ColumnsInfo that passes None through
ColumnsInfoRawExample(t) ==
    [i \in 1..Len(t.cols) |->
        LET desc == t.cols[i]
            example_value == ExampleCell(t, i)
        IN  [column_name |-> desc.name,
             data_type |-> IF desc.type # "" THEN desc.type ELSE UnknownType,
             example_value |-> IF example_value # <<>> THEN PyStr(Str(example_value[1]))
                               ELSE PyNone]]

\* the loop over conn.description that builds columns_info
ColumnsInfo(t) ==
    [i \in 1..Len(t.cols) |->
        LET desc == t.cols[i]
            example_value == ExampleCell(t, i)
        IN  [column_name |-> desc.name,
             data_type |-> IF desc.type # "" THEN desc.type ELSE UnknownType,
             example_value |-> IF example_value # <<>> THEN PyStr(Str(example_value[1]))
                               ELSE PyStr(NullText)]]

\* a variant of PaginateColumns that answers every page with the whole list
PaginateColumnsUnsliced(columns_info, page, page_size) ==
    LET total == Len(columns_info)
        offset == Offset(page, page_size)
    IN  [BlankResponse EXCEPT !.kind = "schema", !.columns = columns_info,
              !.count = Len(columns_info), !.page = page, !.page_size = page_size,
              !.total = total, !.has_next = HasNext(offset, page_size, total)]

\* the pagination of columns_info and the response of both schema handlers
PaginateColumns(columns_info, page, page_size) ==
    LET total == Len(columns_info)
        offset == Offset(page, page_size)
        paginated_columns == Slice(columns_info, offset, page_size)
    IN  [BlankResponse EXCEPT !.kind = "schema", !.columns = paginated_columns,
              !.count = Len(paginated_columns), !.page = page, !.page_size = page_size,
              !.total = total, !.has_next = HasNext(offset, page_size, total)]

\* the columns whose example query is reached: all, or those up to the first
\* one whose query fails
ProbedColumns(t) ==
    IF \E i \in 1..Len(t.cols) : ~ExecExample(t, i).ok
    THEN (CHOOSE i \in 1..Len(t.cols) :
              ~ExecExample(t, i).ok /\ \A j \in 1..(i - 1) : ExecExample(t, j).ok)
    ELSE Len(t.cols)

\* a variant of SchemaPage that answers with the columns read before a failure
SchemaPagePartial(t, page, page_size) ==
    IF ~ExecSelect(t, 1, 0).ok THEN ErrorResponse
    ELSE PaginateColumns(SubSeq(ColumnsInfo(t), 1, ProbedColumns(t) - 1), page, page_size)

\* the body of both schema handlers over source t: the probe query, one example
\* query per column, then the page; a failing query fails the request
SchemaPage(t, page, page_size) ==
    IF ~ExecSelect(t, 1, 0).ok THEN ErrorResponse
    ELSE IF \E i \in 1..Len(t.cols) : ~ExecExample(t, i).ok THEN ErrorResponse
    ELSE PaginateColumns(ColumnsInfo(t), page, page_size)

\* get_column_info
get_column_info(item_path, page, page_size) ==
    IF PathSuffix(item_path) \in {ExtJson, ExtCsv, ExtTsv, ExtTxt, ExtParquet}
    THEN SchemaPage(FileTable(item_path), page, page_size)
    ELSE ErrorResponse

\* get_parquet_folder_column_info
get_parquet_folder_column_info(item_path, page, page_size) ==
    SchemaPage(GlobTable(item_path), page, page_size)

(***************************************************************************)
(* Directory listing.                                                      *)
(***************************************************************************)
\* the characters of the names in code-point order
CharOrder == <<" ", "-", ".", "/">> \o DigitChars \o UpperChars \o <<"_">> \o LowerChars
Code(c) == CHOOSE i \in 1..Len(CharOrder) : CharOrder[i] = c

\* a < b for two names, as str compares them
RECURSIVE NameLess(_, _)
NameLess(a, b) ==
    IF b = <<>> THEN FALSE
    ELSE IF a = <<>> THEN TRUE
    ELSE IF Head(a) # Head(b) THEN Code(Head(a)) < Code(Head(b))
    ELSE NameLess(Tail(a), Tail(b))

\* sorted(...) of a sequence of entries, by name
RECURSIVE SortedEntries(_)
SortedEntries(entries) ==
    IF entries = <<>> THEN <<>>
    ELSE LET m == CHOOSE i \in 1..Len(entries) :
                      \A j \in 1..Len(entries) : ~NameLess(entries[j].name, entries[i].name)
             rest == [j \in 1..(Len(entries) - 1) |->
                          IF j < m THEN entries[j] ELSE entries[j + 1]]
         IN  <<entries[m]>> \o SortedEntries(rest)

\* a variant of read_directory that lists the entries in iterdir() order
ReadDirectoryUnsorted(item_path) ==
    IF ~IsDir(item_path) THEN ErrorResponse
    ELSE
    LET entries == Lookup(item_path).children
        contents == [i \in 1..Len(entries) |->
                        [name |-> entries[i].name,
                         type |-> IF entries[i].type = "file" THEN "file" ELSE "directory",
                         path |-> item_path \o <<entries[i].name>>]]
    IN  [BlankResponse EXCEPT !.kind = "listing", !.data = contents]

\* read_directory
read_directory(item_path) ==
    IF ~IsDir(item_path) THEN ErrorResponse
    ELSE
    LET sorted == SortedEntries(Lookup(item_path).children)
        contents == [i \in 1..Len(sorted) |->
                        [name |-> sorted[i].name,
                         type |-> IF sorted[i].type = "file" THEN "file" ELSE "directory",
                         path |-> item_path \o <<sorted[i].name>>]]
    IN  [BlankResponse EXCEPT !.kind = "listing", !.data = contents]

(***************************************************************************)
(* Endpoint creation.                                                      *)
(***************************************************************************)
Route(path, handler, item) == [path |-> path, handler |-> handler, item |-> item]

\* a variant of IsSupportedSuffix that ignores case
IsSupportedSuffixAnyCase(suffix) == Lower(suffix) \in SupportedSuffixes

\* item.suffix in [".json", ".csv", ".tsv", ".txt", ".parquet"]
IsSupportedSuffix(suffix) == suffix \in SupportedSuffixes

\* a variant of SchemaRouteIf that ignores the flag
SchemaRouteAlways(include_schema_cols, route) == <<route>>

\* if include_schema_cols: register the _columnnames route
SchemaRouteIf(include_schema_cols, route) ==
    IF include_schema_cols THEN <<route>> ELSE <<>>

\* one iteration of the loop of _create_endpoints: the routes registered for item
RoutesOfItem(item, include_schema_cols) ==
    LET item_name == ItemName(PathName(item))
        data_url == DataPrefix \o item_name
        schema_url == DataPrefix \o item_name \o ColumnNamesTail
    IN  IF IsFile(item)
        THEN IF IsSupportedSuffix(PathSuffix(item))
             THEN <<Route(data_url, "read_file", item)>> \o
                  SchemaRouteIf(include_schema_cols,
                                Route(schema_url, "get_column_info", item))
             ELSE <<>>
        ELSE IF IsDir(item)
        THEN IF _has_parquet_files(item)
             THEN <<Route(data_url, "read_parquet_folder", item)>> \o
                  SchemaRouteIf(include_schema_cols,
                                Route(schema_url, "get_parquet_folder_column_info", item))
             ELSE <<Route(data_url, "read_directory", item)>>
        ELSE <<>>

\* _create_endpoints: the routes of all items, in registration order
RECURSIVE _create_endpoints(_, _)
_create_endpoints(its, include_schema_cols) ==
    IF its = <<>> THEN <<>>
    ELSE RoutesOfItem(Head(its), include_schema_cols)
         \o _create_endpoints(Tail(its), include_schema_cols)

(***************************************************************************)
(* What a handler calls on the way to its response, in order: "open" for   *)
(* open(item_path), "iterdir" for item_path.iterdir(), "connect" for       *)
(* duckdb.connect(":memory:"), and one of "count", "page", "probe" and     *)
(* "example" for each conn.execute.  An exception ends the calls.          *)
(***************************************************************************)
\* a variant of ReadTableCalls that issues the page query after a failed count
ReadTableCallsPageAlways(t) == <<"connect", "count", "page">>

\* the calls of the two-query branches of read_file and of read_parquet_folder
ReadTableCalls(t) ==
    <<"connect", "count">> \o (IF ExecCount(t).ok THEN <<"page">> ELSE <<>>)

\* the calls of the schema handlers
SchemaCalls(t) ==
    <<"connect", "probe">> \o
    (IF ExecSelect(t, 1, 0).ok THEN [i \in 1..ProbedColumns(t) |-> "example"] ELSE <<>>)

\* the calls of handler h for item_path
HandlerCalls(h, item_path) ==
    LET suffix == PathSuffix(item_path)
    IN  IF h = "read_file"
        THEN IF suffix = ExtJson THEN <<"open">>
             ELSE IF suffix \in {ExtCsv, ExtTsv, ExtTxt, ExtParquet}
             THEN ReadTableCalls(FileTable(item_path))
             ELSE <<>>
        ELSE IF h = "get_column_info"
        THEN IF suffix \in {ExtJson, ExtCsv, ExtTsv, ExtTxt, ExtParquet}
             THEN SchemaCalls(FileTable(item_path))
             ELSE <<"connect">>
        ELSE IF h = "read_parquet_folder" THEN ReadTableCalls(GlobTable(item_path))
        ELSE IF h = "get_parquet_folder_column_info" THEN SchemaCalls(GlobTable(item_path))
        ELSE <<"iterdir">>

\* the connections a handler opens
Connects(cs) == Cardinality({i \in 1..Len(cs) : cs[i] = "connect"})

(***************************************************************************)
(* Startup: run_fastapi and the functions it calls.  path_data names one   *)
(* of four places: the sample data directory, an empty directory, a        *)
(* regular file, or nothing.  A name of specific_items is a path, split at *)
(* its separators.                                                         *)
(***************************************************************************)
PyInt(n) == [type |-> "int", n |-> n]

DataSource(path_data) ==
    IF path_data = "data" THEN [exists |-> TRUE, is_dir |-> TRUE, children |-> DataDir]
    ELSE IF path_data = "empty" THEN [exists |-> TRUE, is_dir |-> TRUE, children |-> <<>>]
    ELSE IF path_data = "file" THEN [exists |-> TRUE, is_dir |-> FALSE, children |-> <<>>]
    ELSE [exists |-> FALSE, is_dir |-> FALSE, children |-> <<>>]

\* _get_data_path: the directory, or ValueError
_get_data_path(path_data) ==
    LET resolved_path == DataSource(path_data)
    IN  [raised |-> ~resolved_path.exists \/ ~resolved_path.is_dir,
         children |-> resolved_path.children]

\* a variant of _get_items_to_process that does not test the given names
GetItemsUnchecked(children, specific_items) ==
    IF specific_items # <<>> THEN specific_items
    ELSE LET IsFileOrDir(e) == e.type \in {"file", "dir"}
             kept == SelectSeq(SortedEntries(children), IsFileOrDir)
         IN  [i \in 1..Len(kept) |-> <<kept[i].name>>]

\* _get_items_to_process over the children of data_path; a specific_items of
\* None or [] is <<>>
_get_items_to_process(children, specific_items) ==
    IF specific_items # <<>>
    THEN LET Exists(item) == Resolve(children, item).type # "missing"
         IN  SelectSeq(specific_items, Exists)
    ELSE LET IsFileOrDir(e) == e.type \in {"file", "dir"}
             kept == SelectSeq(SortedEntries(children), IsFileOrDir)
         IN  [i \in 1..Len(kept) |-> <<kept[i].name>>]

\* isinstance(port, int) and 1 <= port <= 65535
ValidPort(port) == port.type = "int" /\ port.n >= 1 /\ port.n <= MaxPort

\* isinstance(host, str) and host
ValidHost(host) == host.type = "str" /\ host.chars # <<>>

\* raise ValueError(...)
Raised(its) == [raised |-> TRUE, items |-> its, routes |-> <<>>]

\* a variant of run_fastapi without the test for an empty item list
RunFastapiWithoutItemsCheck(path_data, specific_items, port, host) ==
    IF ~ValidPort(port) THEN Raised(<<>>)
    ELSE IF ~ValidHost(host) THEN Raised(<<>>)
    ELSE IF _get_data_path(path_data).raised THEN Raised(<<>>)
    ELSE LET its == _get_items_to_process(_get_data_path(path_data).children, specific_items)
         IN  [raised |-> FALSE, items |-> its, routes |-> _create_endpoints(its, TRUE)]

\* run_fastapi up to uvicorn.run: ValueError, or the items and the /data/ routes
\* of the application that is served
run_fastapi(path_data, specific_items, port, host) ==
    IF ~ValidPort(port) THEN Raised(<<>>)
    ELSE IF ~ValidHost(host) THEN Raised(<<>>)
    ELSE IF _get_data_path(path_data).raised THEN Raised(<<>>)
    ELSE LET its == _get_items_to_process(_get_data_path(path_data).children, specific_items)
         IN  IF its = <<>> THEN Raised(its)
             ELSE [raised |-> FALSE, items |-> its, routes |-> _create_endpoints(its, TRUE)]

(***************************************************************************)
(* The application: startup, then requests served one at a time.           *)
(***************************************************************************)
VARIABLES
    pc,                  \* "start" before startup, "raised" when run_fastapi has raised
                         \* ValueError, else "serving" between requests and "responded"
                         \* when one has been answered
    args,                \* the arguments of run_fastapi, NoArgs when the application
                         \* is built by a call of _create_endpoints
    items,               \* the items of run_fastapi, or of the call of _create_endpoints
    include_schema_cols, \* the include_schema_cols argument of _create_endpoints
    routes,              \* app.routes: the registered /data/ routes, in order
    request,             \* the request served last
    response,            \* the response to it
    calls,               \* and what its handler called
    connections          \* the number of engine connections that are open

vars == <<pc, args, items, include_schema_cols, routes, request, response, calls, connections>>

\* the entries of the data directory, as paths
TopPaths == {<<DataDir[i].name>> : i \in 1..Len(DataDir)}

\* the entries that are given to _create_endpoints together with others
GroupPaths == {<<e.name>> : e \in {CsvLower, CsvUpperName, ShardDir, PlainDir}}

\* the item lists given to _create_endpoints: none, any one entry of the data
\* directory, or up to MaxItems entries of GroupPaths in any order
ItemLists ==
    {<<>>} \cup {<<p>> : p \in TopPaths} \cup UNION {[1..n -> GroupPaths] : n \in 2..MaxItems}

\* the values a client sends for page and page_size
Pages == 0..MaxPage
PageSizes == (0..MaxSmallPageSize) \cup {JsonSmallLimit \div 2, PageSizeLimit, PageSizeLimit + 1}

\* the values a client sends for the item_path query parameter; <<>> is "not sent"
QueryPaths == {<<>>, <<ShardDir.name, Shard2.name>>}

NoRequest ==
    [url |-> <<>>, handler |-> "none", item |-> <<>>, page |-> 0, page_size |-> 0,
     item_path |-> <<>>]

NoArgs == [path_data |-> "", specific_items |-> <<>>, port |-> PyNone, host |-> PyNone]

LocalHost == PyStr(<<"1", "2", "7", ".", "0", ".", "0", ".", "1">>)
BaseArgs ==
    [path_data |-> "data", specific_items |-> << <<CsvLower.name>> >>,
     port |-> PyInt(DefaultPort), host |-> LocalHost]

\* the values given for port and host
Ports == {PyInt(0), PyInt(1), PyInt(MaxPort), PyInt(MaxPort + 1), PyStr(<<"8", "0">>)}
Hosts == {PyStr(<<>>), PyNone}

Nope == <<"n", "o", "p", "e">>
\* the values given for specific_items
NameLists ==
    {<<>>,
     << <<Nope>> >>,
     << <<Nope>>, <<CsvLower.name>>, <<Nope>>, <<CsvUpperName.name>> >>,
     << <<ShardDir.name>>, <<CsvLower.name>>, <<ShardDir.name>> >>,
     << <<ShardDir.name, Shard1.name>> >>,
     << <<LogFile.name>> >>,
     << <<Fifo.name>> >>}

\* the arguments run_fastapi is called with: BaseArgs with another port, host,
\* path_data or specific_items
StartupArgs ==
    {[BaseArgs EXCEPT !.port = p] : p \in Ports}
    \cup {[BaseArgs EXCEPT !.host = h] : h \in Hosts}
    \cup {[BaseArgs EXCEPT !.path_data = d, !.specific_items = n] :
             d \in {"empty", "file", "missing"}, n \in {<<>>, BaseArgs.specific_items}}
    \cup {[BaseArgs EXCEPT !.specific_items = n] : n \in NameLists}

Init ==
    /\ pc = "start"
    /\ \/ /\ args = NoArgs
          /\ items \in ItemLists
          /\ include_schema_cols \in BOOLEAN
       \/ /\ args \in StartupArgs
          /\ items = <<>>
          /\ include_schema_cols = TRUE
    /\ routes = <<>>
    /\ request = NoRequest
    /\ response = BlankResponse
    /\ calls = <<>>
    /\ connections = 0

\* _create_endpoints(app, data_path, items, include_schema_cols)
CreateEndpoints ==
    /\ pc = "start"
    /\ args = NoArgs
    /\ routes' = _create_endpoints(items, include_schema_cols)
    /\ pc' = "serving"
    /\ UNCHANGED <<args, items, include_schema_cols, request, response, calls, connections>>

\* run_fastapi(path_data, specific_items, port, host): ValueError, or uvicorn.run
RunFastapi ==
    /\ pc = "start"
    /\ args # NoArgs
    /\ LET run == run_fastapi(args.path_data, args.specific_items, args.port, args.host)
       IN  /\ items' = run.items
           /\ routes' = run.routes
           /\ pc' = IF run.raised THEN "raised" ELSE "serving"
    /\ UNCHANGED <<args, include_schema_cols, request, response, calls, connections>>

\* a variant of Dispatch that takes the route registered last
DispatchLast(url) ==
    CHOOSE r \in 1..Len(routes) :
        routes[r].path = url /\ \A j \in (r + 1)..Len(routes) : routes[j].path # url

\* the router: the first registered route whose path is the requested one
Dispatch(url) ==
    CHOOSE r \in 1..Len(routes) :
        routes[r].path = url /\ \A j \in 1..(r - 1) : routes[j].path # url

\* a variant of ValidPage without the upper limit of page_size
ValidPageNoUpperLimit(page, page_size) == page >= 1 /\ page_size >= 1

\* Query(1, ge=1) and Query(5, ge=1, le=1000)
ValidPage(page, page_size) == page >= 1 /\ page_size >= 1 /\ page_size <= PageSizeLimit

\* a request for the path of route r is dispatched to a route of handler h;
\* item_path is the query parameter when sent, else the handler's default
Served(r, h, page, page_size, q) ==
    /\ pc = "serving"
    /\ routes[Dispatch(routes[r].path)].handler = h
    /\ pc' = "responded"
    /\ request' = [url |-> routes[r].path, handler |-> h,
                   item |-> routes[Dispatch(routes[r].path)].item,
                   page |-> page, page_size |-> page_size,
                   item_path |-> IF q = <<>> THEN routes[Dispatch(routes[r].path)].item ELSE q]
    /\ UNCHANGED <<args, items, include_schema_cols, routes>>

\* the handler runs: its calls are made, and a connection it opens is open
Handled(h) ==
    /\ calls' = HandlerCalls(h, request'.item_path)
    /\ connections + Connects(calls') <= MaxOpenConnections
    /\ connections' = connections + Connects(calls')

ReadFileRequest ==
    \E r \in 1..Len(routes), page \in Pages, page_size \in PageSizes, q \in QueryPaths :
        /\ ValidPage(page, page_size)
        /\ Served(r, "read_file", page, page_size, q)
        /\ Handled("read_file")
        /\ response' = read_file(request'.item_path, page, page_size)

GetColumnInfoRequest ==
    \E r \in 1..Len(routes), page \in Pages, page_size \in PageSizes, q \in QueryPaths :
        /\ ValidPage(page, page_size)
        /\ Served(r, "get_column_info", page, page_size, q)
        /\ Handled("get_column_info")
        /\ response' = get_column_info(request'.item_path, page, page_size)

ReadParquetFolderRequest ==
    \E r \in 1..Len(routes), page \in Pages, page_size \in PageSizes, q \in QueryPaths :
        /\ ValidPage(page, page_size)
        /\ Served(r, "read_parquet_folder", page, page_size, q)
        /\ Handled("read_parquet_folder")
        /\ response' = read_parquet_folder(request'.item_path, page, page_size)

GetParquetFolderColumnInfoRequest ==
    \E r \in 1..Len(routes), page \in Pages, page_size \in PageSizes, q \in QueryPaths :
        /\ ValidPage(page, page_size)
        /\ Served(r, "get_parquet_folder_column_info", page, page_size, q)
        /\ Handled("get_parquet_folder_column_info")
        /\ response' = get_parquet_folder_column_info(request'.item_path, page, page_size)

\* read_directory takes no page parameters
ReadDirectoryRequest ==
    \E r \in 1..Len(routes), q \in QueryPaths :
        /\ Served(r, "read_directory", 0, 0, q)
        /\ Handled("read_directory")
        /\ response' = read_directory(request'.item_path)

\* a page or page_size outside its range is refused before the handler runs
RejectedRequest ==
    \E r \in 1..Len(routes), page \in Pages, page_size \in PageSizes :
        /\ ~ValidPage(page, page_size)
        /\ routes[Dispatch(routes[r].path)].handler # "read_directory"
        /\ Served(r, routes[Dispatch(routes[r].path)].handler, page, page_size, <<>>)
        /\ response' = [BlankResponse EXCEPT !.kind = "rejected"]
        /\ UNCHANGED <<calls, connections>>

\* a variant of Complete that also drops the registered routes
CompleteClearingRoutes ==
    /\ pc = "responded"
    /\ pc' = "serving"
    /\ request' = NoRequest
    /\ response' = BlankResponse
    /\ calls' = <<>>
    /\ routes' = <<>>
    /\ UNCHANGED <<args, items, include_schema_cols, connections>>

\* the response has been sent: the request and all it built are gone, but for
\* the connection, which no handler closes
Complete ==
    /\ pc = "responded"
    /\ pc' = "serving"
    /\ request' = NoRequest
    /\ response' = BlankResponse
    /\ calls' = <<>>
    /\ UNCHANGED <<args, items, include_schema_cols, routes, connections>>

\* the garbage collector finalizes a connection object no handler refers to any
\* more, which closes it
CollectConnection ==
    /\ pc \in {"serving", "responded"}
    /\ connections > 0
    /\ connections' = connections - 1
    /\ UNCHANGED <<pc, args, items, include_schema_cols, routes, request, response, calls>>

Next ==
    \/ CreateEndpoints
    \/ RunFastapi
    \/ ReadFileRequest
    \/ GetColumnInfoRequest
    \/ ReadParquetFolderRequest
    \/ GetParquetFolderColumnInfoRequest
    \/ ReadDirectoryRequest
    \/ RejectedRequest
    \/ Complete
    \/ CollectConnection

Spec == Init /\ [][Next]_vars

(***************************************************************************)
(* The application beside a writer: another process appends a row to the   *)
(* source of a request, or removes its last row, between the two queries   *)
(* of the handler.  Each query reads the source when it is executed.       *)
(***************************************************************************)
Writes == {"none", "append", "remove"}

\* the source t after the write w
Written(t, w) ==
    IF ~t.ok \/ t.rows = <<>> \/ w = "none" THEN t
    ELSE IF w = "append" THEN [t EXCEPT !.rows = @ \o <<t.rows[1]>>]
    ELSE [t EXCEPT !.rows = SubSeq(@, 1, Len(@) - 1)]

\* the item lists of the application beside a writer: a CSV file, a Parquet
\* folder, or both
WriterItemLists ==
    {<< <<CsvLower.name>> >>, << <<ShardDir.name>> >>, << <<CsvLower.name>>, <<ShardDir.name>> >>}

WriterInit ==
    /\ pc = "start"
    /\ args = NoArgs
    /\ items \in WriterItemLists
    /\ include_schema_cols = FALSE
    /\ routes = <<>>
    /\ request = NoRequest
    /\ response = BlankResponse
    /\ calls = <<>>
    /\ connections = 0

ReadFileWhileWritten ==
    \E r \in 1..Len(routes), page \in Pages, page_size \in PageSizes, w \in Writes :
        /\ ValidPage(page, page_size)
        /\ Served(r, "read_file", page, page_size, <<>>)
        /\ Handled("read_file")
        /\ PathSuffix(request'.item_path) \in {ExtCsv, ExtTsv, ExtTxt, ExtParquet}
        /\ response' = ReadTableWhileWritten(FileTable(request'.item_path),
                                             Written(FileTable(request'.item_path), w),
                                             page, page_size)

ReadParquetFolderWhileWritten ==
    \E r \in 1..Len(routes), page \in Pages, page_size \in PageSizes, w \in Writes :
        /\ ValidPage(page, page_size)
        /\ Served(r, "read_parquet_folder", page, page_size, <<>>)
        /\ Handled("read_parquet_folder")
        /\ response' = ReadTableWhileWritten(GlobTable(request'.item_path),
                                             Written(GlobTable(request'.item_path), w),
                                             page, page_size)

WriterNext ==
    \/ CreateEndpoints
    \/ ReadFileWhileWritten
    \/ ReadParquetFolderWhileWritten
    \/ Complete
    \/ CollectConnection

WriterSpec == WriterInit /\ [][WriterNext]_vars

(***************************************************************************)
(* Properties.                                                             *)
(***************************************************************************)
\* the offset the request asks for
RequestOffset == (request.page - 1) * request.page_size

\* startup is over and no request is being answered; no later step changes
\* the items or the routes, so that what holds of them here holds from startup on
BetweenRequests == pc \in {"raised", "serving"}

\* how often an item occurs in the items given to _create_endpoints
Occurrences(it) == Cardinality({i \in 1..Len(items) : items[i] = it})

\* the registered routes bound to an item, and their handlers
RoutesOf(it) == {r \in 1..Len(routes) : routes[r].item = it}
HandlersOf(it) == {routes[r].handler : r \in RoutesOf(it)}
CountRoutes(it, h, url) ==
    Cardinality({r \in RoutesOf(it) : routes[r].handler = h /\ routes[r].path = url})

\* a direct child of the directory is a regular file with extension .parquet
HasParquetChild(path) ==
    \E k \in 1..Len(Lookup(path).children) :
        /\ Lookup(path).children[k].type = "file"
        /\ Suffix(Lookup(path).children[k].name) = ExtParquet

\* the rows of the .parquet files among the entries, summed
RECURSIVE ShardRowSum(_)
ShardRowSum(entries) ==
    IF entries = <<>> THEN 0
    ELSE (IF Head(entries).type = "file" /\ Suffix(Head(entries).name) = ExtParquet
          THEN Len(Head(entries).table.rows) ELSE 0) + ShardRowSum(Tail(entries))

\* the request was answered by read_file from a JSON document that parses
JsonDocumentServed ==
    /\ pc = "responded"
    /\ request.handler = "read_file"
    /\ response.kind # "rejected"
    /\ PathSuffix(request.item_path) = ExtJson
    /\ Lookup(request.item_path).type = "file"
    /\ Lookup(request.item_path).json.ok

\* C1: in every paginated data response outside the small-JSON bypass and in
\* every schema response, has_next is true exactly when
\* (page - 1) * page_size + page_size < total.
HasNextIffMoreRemain ==
    response.kind \in {"table", "json_page", "schema"} =>
        (response.has_next <=> RequestOffset + request.page_size < response.total)

\* C1 witness: a second or later page of a table that reports a next page
HasNextOnLaterPage ==
    response.kind = "table" /\ request.page >= 2 /\ response.has_next

\* C2: in every data response outside the bypass, count is the number of rows
\* in data and is min(page_size, max(0, total - offset)).
CountIsPageLength ==
    response.kind \in {"table", "json_page"} =>
        /\ response.count = Len(response.data)
        /\ response.count =
               Min(request.page_size, Max(0, response.total - RequestOffset))

\* C2 witness: a page past the end of a non-empty table, answered with no rows
EmptyPagePastEnd ==
    /\ response.kind = "table"
    /\ response.total > 0
    /\ RequestOffset >= response.total
    /\ response.count = 0

\* the table a tabular data request reads
RequestedTable ==
    IF request.handler = "read_parquet_folder"
    THEN GlobTable(request.item_path)
    ELSE FileTable(request.item_path)

\* C3: for CSV, TSV/TXT, Parquet-file and Parquet-folder sources the row at
\* absolute index i is on page floor(i / page_size) + 1 at local index
\* i mod page_size, a page holds nothing else, and no row is on another page.
PagesPartitionRows ==
    response.kind = "table" =>
        LET t == RequestedTable
            p == request.page_size
            n == Len(t.rows)
            names == [c \in 1..Len(t.cols) |-> t.cols[c].name]
            RowAt(i) == RowDict(names, t.rows[i + 1])
            OnPage(i) == (i \div p) + 1 = request.page
        IN  /\ \A i \in 0..(n - 1) :
                  OnPage(i) => /\ (i % p) + 1 <= Len(response.data)
                               /\ response.data[(i % p) + 1] = RowAt(i)
            /\ \A j \in 1..Len(response.data) :
                  \E i \in 0..(n - 1) : OnPage(i) /\ (i % p) + 1 = j
            /\ \A j \in 1..Len(response.data) : \A i \in 0..(n - 1) :
                  response.data[j] = RowAt(i) => OnPage(i) /\ (i % p) + 1 = j

\* C3 witness: the third page of three rows of a folder of 3 + 3 + 2 rows
LastPageOfShardFolder ==
    /\ response.kind = "table"
    /\ request.handler = "read_parquet_folder"
    /\ request.page = 3 /\ request.page_size = 3
    /\ response.count = 2

LongJsonListPages ==
    (/\ JsonDocumentServed
     /\ Lookup(request.item_path).json.doc.t = "list"
     /\ Len(Lookup(request.item_path).json.doc.v) > JsonSmallLimit)
    => LET N == Len(Lookup(request.item_path).json.doc.v)
           p == request.page_size
           last == (N + p - 1) \div p
       IN  /\ response.kind = "json_page"
           /\ request.page = last =>
                  /\ Len(response.data) = (IF N % p = 0 THEN p ELSE N % p)
                  /\ response.count = Len(response.data)
                  /\ response.has_next = FALSE
           /\ request.page < last =>
                  /\ Len(response.data) = p
                  /\ response.count = p
                  /\ response.has_next = TRUE

\* C5 witness: the last page of a long list, not the first and not full
LongJsonListLastPage ==
    /\ JsonDocumentServed
    /\ Lookup(request.item_path).json.doc.t = "list"
    /\ Len(Lookup(request.item_path).json.doc.v) > JsonSmallLimit
    /\ response.kind = "json_page"
    /\ request.page >= 2
    /\ request.page * request.page_size > response.total
    /\ response.count > 0

\* C6: the total of a Parquet folder is the sum of the row counts of the
\* .parquet files that are its direct children, and its schema lists the columns
\* that every shard has, whatever the number of shards.
ParquetFolderTotalAndSchema ==
    /\ (request.handler = "read_parquet_folder" /\ response.kind = "table") =>
           response.total = ShardRowSum(Lookup(request.item_path).children)
    /\ (request.handler = "get_parquet_folder_column_info" /\ response.kind = "schema") =>
           \A k \in 1..Len(Lookup(request.item_path).children) :
               LET c == Lookup(request.item_path).children[k]
               IN  (c.type = "file" /\ Suffix(c.name) = ExtParquet) =>
                       /\ response.total = Len(c.table.cols)
                       /\ \A j \in 1..Len(response.columns) :
                              /\ RequestOffset + j <= Len(c.table.cols)
                              /\ response.columns[j].column_name =
                                     c.table.cols[RequestOffset + j].name
                              /\ response.columns[j].data_type =
                                     c.table.cols[RequestOffset + j].type

\* C6 witness: a folder of several shards and a non-parquet file is read
ShardFolderWithSiblingRead ==
    /\ request.handler = "read_parquet_folder"
    /\ response.kind = "table"
    /\ response.total > 0
    /\ \E k \in 1..Len(Lookup(request.item_path).children) :
           /\ Lookup(request.item_path).children[k].type = "file"
           /\ Suffix(Lookup(request.item_path).children[k].name) # ExtParquet
           /\ Len(Lookup(request.item_path).children[k].table.rows) > 0
    /\ Cardinality({k \in 1..Len(Lookup(request.item_path).children) :
           Suffix(Lookup(request.item_path).children[k].name) = ExtParquet}) >= 2

\* C7: endpoint creation treats every item as one kind only; a directory is
\* served as a Parquet folder exactly when a direct child is a regular file with
\* extension .parquet, and as a plain folder otherwise.
ItemsTreatedAsOneKind ==
    BetweenRequests =>
        \A i \in 1..Len(items) :
            LET it == items[i]
                hs == HandlersOf(it)
            IN  /\ Cardinality(hs \cap {"read_file", "read_parquet_folder",
                                        "read_directory"}) <= 1
                /\ "read_parquet_folder" \in hs <=> (IsDir(it) /\ HasParquetChild(it))
                /\ "read_directory" \in hs <=> (IsDir(it) /\ ~HasParquetChild(it))
                /\ "read_file" \in hs => IsFile(it)
                /\ (~IsFile(it) /\ ~IsDir(it)) => hs = {}

\* C7 witness: a directory whose only parquet names are a sub-directory's file
\* and a directory called z.parquet is registered as a plain folder
PlainFolderDespiteNestedParquet ==
    /\ pc = "serving"
    /\ \E i \in 1..Len(items) :
           /\ HandlersOf(items[i]) = {"read_directory"}
           /\ \E k \in 1..Len(Lookup(items[i]).children) :
                  /\ Lookup(items[i]).children[k].type = "dir"
                  /\ Suffix(Lookup(items[i]).children[k].name) = ExtParquet

RouteBinding ==
    BetweenRequests =>
        \A i \in 1..Len(items) :
            LET it == items[i]
                k == Occurrences(it)
                data_url == DataPrefix \o ItemName(PathName(it))
                schema_url == data_url \o ColumnNamesTail
                schema_k == IF include_schema_cols THEN k ELSE 0
            IN  /\ (IsFile(it) /\ PathSuffix(it) \in {ExtJson, ExtCsv, ExtTsv, ExtTxt,
                                                       ExtParquet}) =>
                       /\ CountRoutes(it, "read_file", data_url) = k
                       /\ CountRoutes(it, "get_column_info", schema_url) = schema_k
                       /\ Cardinality(RoutesOf(it)) = k + schema_k
                /\ (IsDir(it) /\ HasParquetChild(it)) =>
                       /\ CountRoutes(it, "read_parquet_folder", data_url) = k
                       /\ CountRoutes(it, "get_parquet_folder_column_info", schema_url)
                              = schema_k
                       /\ Cardinality(RoutesOf(it)) = k + schema_k
                /\ (IsDir(it) /\ ~HasParquetChild(it)) =>
                       /\ CountRoutes(it, "read_directory", data_url) = k
                       /\ Cardinality(RoutesOf(it)) = k

\* C10 witness: a file and a plain folder registered together with schema routes
\* enabled: three routes
FileAndPlainFolderWithSchema ==
    /\ pc = "serving"
    /\ include_schema_cols
    /\ Len(items) = 2
    /\ "read_file" \in HandlersOf(items[1])
    /\ "read_directory" \in HandlersOf(items[2])
    /\ Len(routes) = 3

\* the table a schema request probes
RequestedSchemaTable ==
    IF request.handler = "get_parquet_folder_column_info"
    THEN GlobTable(request.item_path)
    ELSE FileTable(request.item_path)

\* C11: a schema response pages the column list, not the rows: for a source of
\* C columns total = C and count = min(page_size, max(0, C - offset)), the
\* column at index i of the engine's description is on page
\* floor(i / page_size) + 1 at local index i mod page_size, and a page holds
\* nothing else, so consecutive pages repeat and skip no column.
SchemaPagesPartitionColumns ==
    response.kind = "schema" =>
        LET cols == RequestedSchemaTable.cols
            C == Len(cols)
            p == request.page_size
            OnPage(i) == (i \div p) + 1 = request.page
        IN  /\ response.total = C
            /\ response.count = Min(p, Max(0, C - RequestOffset))
            /\ Len(response.columns) = response.count
            /\ \A i \in 0..(C - 1) :
                   OnPage(i) => /\ (i % p) + 1 <= Len(response.columns)
                                /\ response.columns[(i % p) + 1].column_name = cols[i + 1].name
            /\ \A j \in 1..Len(response.columns) :
                   \E i \in 0..(C - 1) : OnPage(i) /\ (i % p) + 1 = j

\* C11 witness: the second page of two columns of a source with three columns
\* and two rows holds the third column alone
SchemaLastPagePartial ==
    /\ response.kind = "schema"
    /\ Len(RequestedSchemaTable.cols) = 3
    /\ Len(RequestedSchemaTable.rows) = 2
    /\ request.page = 2 /\ request.page_size = 2
    /\ response.count = 1
    /\ response.columns[1].column_name = RequestedSchemaTable.cols[3].name

\* C12: in every successful schema response each example_value is a string,
\* never None, and the descriptors are those of the probe query's columns, one
\* for each column in order: total is the number of probe columns and the
\* descriptor at local index j is the one of column offset + j.
SchemaExamplesAreStrings ==
    response.kind = "schema" =>
        LET description == ExecSelect(RequestedSchemaTable, 1, 0).description
        IN  /\ response.total = Len(description)
            /\ \A j \in 1..Len(response.columns) :
                   /\ response.columns[j].example_value.type = "str"
                   /\ RequestOffset + j <= Len(description)
                   /\ response.columns[j].column_name = description[RequestOffset + j].name
            /\ (request.page = 1 /\ request.page_size >= Len(description)) =>
                   Len(response.columns) = Len(description)

\* C12 witness: a source without rows is introspected and every column of it is
\* described, with the string NULL as its example
EmptySourceDescribed ==
    /\ response.kind = "schema"
    /\ RequestedSchemaTable.rows = <<>>
    /\ Len(response.columns) = Len(RequestedSchemaTable.cols)
    /\ \A j \in 1..Len(response.columns) :
           response.columns[j].example_value = PyStr(NullText)

\* the first cell of column c that is not NULL, <<>> when there is none
FirstNonNull(t, c) ==
    LET holds == {r \in 1..Len(t.rows) : t.rows[r][c] # <<>>}
    IN  IF holds = {} THEN <<>>
        ELSE t.rows[CHOOSE r \in holds : \A q \in holds : r <= q][c]

\* C13 as claimed: example_value is the stringified first non-null value of the
\* column in row order, and "NULL" only when the column has no non-null value.
ExampleIsFirstNonNull ==
    response.kind = "schema" =>
        \A j \in 1..Len(response.columns) :
            LET v == FirstNonNull(RequestedSchemaTable, RequestOffset + j)
            IN  response.columns[j].example_value =
                    (IF v # <<>> THEN PyStr(Str(v[1])) ELSE PyStr(NullText))

\* C13 amended: example_value is the stringified value the column has in the
\* first row of the source, and "NULL" when the source has no row or that value
\* is NULL, whatever later rows hold.
ExampleIsFirstRowValue ==
    response.kind = "schema" =>
        \A j \in 1..Len(response.columns) :
            LET t == RequestedSchemaTable
                c == RequestOffset + j
            IN  response.columns[j].example_value =
                    (IF t.rows # <<>> /\ t.rows[1][c] # <<>>
                     THEN PyStr(Str(t.rows[1][c][1]))
                     ELSE PyStr(NullText))

\* C13 witness: a column that is NULL in the first row and holds a value in a
\* later row is reported with the example NULL
NullExampleDespiteLaterValue ==
    /\ response.kind = "schema"
    /\ \E j \in 1..Len(response.columns) :
           /\ response.columns[j].example_value = PyStr(NullText)
           /\ FirstNonNull(RequestedSchemaTable, RequestOffset + j) # <<>>

\* C14: the key of a route is a function of the item's name alone, deriving a
\* key from a key changes nothing, and a key holds no upper-case letter, no
\* space and no hyphen.
ResourceKeyIdempotent ==
    BetweenRequests => \A r \in 1..Len(routes) :
        LET key == ItemName(PathName(routes[r].item))
        IN  /\ routes[r].path \in {DataPrefix \o key, DataPrefix \o key \o ColumnNamesTail}
            /\ ItemName(key) = key
            /\ \A i \in 1..Len(key) : key[i] \notin Range(UpperChars) \cup {" ", "-"}

\* C14 witness: a route is registered for a name with upper-case letters and
\* a space, under a key that differs from the name
KeyOfMixedNameRegistered ==
    \E r \in 1..Len(routes) :
        /\ " " \in Range(PathName(routes[r].item))
        /\ Range(PathName(routes[r].item)) \cap Range(UpperChars) # {}
        /\ routes[r].path = DataPrefix \o ItemName(PathName(routes[r].item))
        /\ ItemName(PathName(routes[r].item)) # PathName(routes[r].item)

\* the routes registered under the path of the request, in registration order
RoutesAtRequestUrl == {r \in 1..Len(routes) : routes[r].path = request.url}

\* the request is for a path under which two different items are registered
CollidingRequest ==
    /\ pc = "responded"
    /\ \E r, q \in RoutesAtRequestUrl : routes[r].item # routes[q].item

\* C15 as claimed: when two items derive the same key, both are registered and
\* a request for the key is served from the item registered later.
LaterRegistrationServes ==
    CollidingRequest =>
        request.item = routes[CHOOSE r \in RoutesAtRequestUrl :
                                  \A q \in RoutesAtRequestUrl : q <= r].item

\* C15 amended: when two items derive the same key, both are registered and a
\* request for the key is served by the handler and from the item registered
\* first; the later registration is never reached.
EarlierRegistrationServes ==
    CollidingRequest =>
        LET first == CHOOSE r \in RoutesAtRequestUrl : \A q \in RoutesAtRequestUrl : r <= q
        IN  /\ request.item = routes[first].item
            /\ request.handler = routes[first].handler
            /\ \A i \in 1..Len(items) : ItemName(PathName(items[i])) = ItemName(PathName(request.item))
                   => RoutesOf(items[i]) # {}

\* C15 witness: two files whose names differ by case are registered under one
\* path and a request for it has read the first of them
CollisionServedFromFirst ==
    /\ CollidingRequest
    /\ Len(items) = 2
    /\ items[1] # items[2]
    /\ Lower(PathName(items[1])) = Lower(PathName(items[2]))
    /\ request.item = items[1]
    /\ response.kind = "table"
    /\ response.total = Len(Lookup(items[1]).table.rows)
    /\ response.total # Len(Lookup(items[2]).table.rows)

\* run_fastapi has been called with a valid port and host and a data path that
\* is a directory, so that it has built its list of items
CatalogBuilt ==
    /\ args # NoArgs
    /\ pc # "start"
    /\ ValidPort(args.port) /\ ValidHost(args.host)
    /\ DataSource(args.path_data).exists /\ DataSource(args.path_data).is_dir

\* the positions of specific_items whose name leads to an existing entry
ResolvingNames ==
    {i \in 1..Len(args.specific_items) :
         Resolve(DataSource(args.path_data).children, args.specific_items[i]).type # "missing"}

\* with an explicit list, items is the given names that exist, in the given
\* order, and nothing else
ItemsAreResolvingNames ==
    /\ Len(items) = Cardinality(ResolvingNames)
    /\ \A i \in ResolvingNames :
           items[Cardinality({j \in ResolvingNames : j <= i})] = args.specific_items[i]

\* items is the children among cs, each once, in ascending order of name
ItemsAreSortedChildren(cs) ==
    /\ Len(items) = Cardinality(cs)
    /\ \A k \in cs : \E i \in 1..Len(items) :
           items[i] = <<DataSource(args.path_data).children[k].name>>
    /\ \A i \in 1..Len(items) : Len(items[i]) = 1
    /\ \A i, j \in 1..Len(items) : i < j => NameLess(items[i][1], items[j][1])

\* C16 as claimed: with an explicit list the catalog is the given names that
\* resolve, in the given order; without one it is all immediate children of
\* the data source in lexicographic order of name.
CatalogIsNamesOrAllChildren ==
    CatalogBuilt =>
        IF args.specific_items # <<>> THEN ItemsAreResolvingNames
        ELSE ItemsAreSortedChildren(1..Len(DataSource(args.path_data).children))

\* C16 amended: with an explicit list the catalog is the given names that
\* resolve, in the given order; without one it is the immediate children of
\* the data source that are regular files or directories, in lexicographic
\* order of name.
CatalogIsNamesOrFileAndDirChildren ==
    (CatalogBuilt /\ BetweenRequests) =>
        IF args.specific_items # <<>> THEN ItemsAreResolvingNames
        ELSE ItemsAreSortedChildren(
                 {k \in 1..Len(DataSource(args.path_data).children) :
                      DataSource(args.path_data).children[k].type \in {"file", "dir"}})

\* C16 witness: of four given names the two that exist are kept, in the order
\* given, which is not the sorted one
MissingNamesDropped ==
    /\ CatalogBuilt
    /\ Len(args.specific_items) = 4
    /\ Len(items) = 2
    /\ NameLess(items[2][1], items[1][1])

\* the catalog run_fastapi would build is not empty
CatalogNonEmpty ==
    IF args.specific_items # <<>> THEN ResolvingNames # {}
    ELSE \E k \in 1..Len(DataSource(args.path_data).children) :
             DataSource(args.path_data).children[k].type \in {"file", "dir"}

\* the checks of run_fastapi
StartupChecksPass ==
    /\ args.port.type = "int" /\ 1 <= args.port.n /\ args.port.n <= MaxPort
    /\ args.host.type = "str" /\ args.host.chars # <<>>
    /\ DataSource(args.path_data).exists /\ DataSource(args.path_data).is_dir
    /\ CatalogNonEmpty

\* C17: run_fastapi serves only when the port is an integer in 1..65535, the
\* host a non-empty string, the data path an existing directory and the
\* catalog not empty; when one of these fails it raises ValueError, and then
\* nothing is ever served.
ServesOnlyAfterChecks ==
    (args # NoArgs /\ pc # "start") =>
        /\ pc \in {"serving", "responded"} <=> StartupChecksPass
        /\ pc = "raised" <=> ~StartupChecksPass
        /\ pc = "raised" => routes = <<>> /\ request = NoRequest /\ response = BlankResponse
        /\ pc \in {"serving", "responded"} => items # <<>>

\* C17 witness: run_fastapi has raised for an empty data directory given with a
\* valid port and host
EmptyDirectoryRefused ==
    /\ pc = "raised"
    /\ args # NoArgs
    /\ ValidPort(args.port) /\ ValidHost(args.host)
    /\ DataSource(args.path_data).is_dir
    /\ DataSource(args.path_data).children = <<>>
    /\ args.specific_items = <<>>

\* C18: a request with page < 1 or page_size outside 1..1000, to a route that
\* takes these parameters, is refused before the handler runs: the handler
\* opens no file, creates no connection and executes no query.
InvalidPageRejectedBeforeHandler ==
    (/\ pc = "responded"
     /\ request.handler # "read_directory"
     /\ (request.page < 1 \/ request.page_size < 1 \/ request.page_size > PageSizeLimit))
    => /\ response = [BlankResponse EXCEPT !.kind = "rejected"]
       /\ calls = <<>>

\* C18 witness: a request for page 1 with page_size 1001 has been refused
OversizedPageRejected ==
    /\ pc = "responded"
    /\ response.kind = "rejected"
    /\ request.page = 1
    /\ request.page_size = PageSizeLimit + 1
    /\ calls = <<>>

\* the source of the request cannot be read as far as the request needs it
SourceFails ==
    LET h == request.handler
        path == request.item_path
        f == Lookup(path)
        tabular == PathSuffix(path) \in {ExtCsv, ExtTsv, ExtTxt, ExtParquet}
        shards == {k \in 1..Len(f.children) :
                       f.children[k].type = "file" /\ EndsWithParquet(f.children[k].name)}
        BadColumns(t) ==
            \/ t.bad_row = 1
            \/ \E c \in 1..Len(t.cols) : " " \in Range(t.cols[c].name)
    IN  IF h = "read_file"
        THEN \/ PathSuffix(path) = ExtJson /\ (f.type # "file" \/ ~f.json.ok)
             \/ tabular /\ (f.type # "file" \/ ~f.table.ok)
             \/ tabular /\ f.table.bad_row # 0
                        /\ RequestOffset + request.page_size >= f.table.bad_row
        ELSE IF h = "get_column_info"
        THEN \/ ~tabular /\ PathSuffix(path) # ExtJson
             \/ f.type # "file" \/ ~f.table.ok
             \/ BadColumns(f.table)
        ELSE IF h = "read_parquet_folder"
        THEN shards = {} \/ \E k \in shards : ~f.children[k].table.ok
        ELSE IF h = "get_parquet_folder_column_info"
        THEN \/ shards = {} \/ \E k \in shards : ~f.children[k].table.ok
             \/ \E k \in shards : BadColumns(f.children[k].table)
        ELSE f.type # "dir"

\* C19: a request fails as a server error exactly when its source cannot be
\* read, counted, paged or probed; the error response carries no rows and no
\* column, and the routes stay those registered at startup, so that the
\* requests that follow are served as before.
FailureFailsWholeRequest ==
    /\ (pc = "responded" /\ response.kind # "rejected") =>
           (SourceFails <=> response.kind = "error")
    /\ response.kind = "error" => response = ErrorResponse
    /\ pc = "serving" => routes = _create_endpoints(items, include_schema_cols)

\* C19 witness: the count query succeeded, the page query failed, and the
\* request is answered with the error alone
PageQueryFailsAfterCount ==
    /\ pc = "responded"
    /\ calls = <<"connect", "count", "page">>
    /\ response = ErrorResponse

\* C20 as claimed: every connection a request opens is closed by the time the
\* request completes, so that none is open between requests.
ConnectionsClosedAtCompletion ==
    pc = "serving" => connections = 0

\* the response the handler of the request gives for it when it reads path
HandlerResponse(path) ==
    LET h == request.handler
    IN  IF h = "read_file" THEN read_file(path, request.page, request.page_size)
        ELSE IF h = "get_column_info"
        THEN get_column_info(path, request.page, request.page_size)
        ELSE IF h = "read_parquet_folder"
        THEN read_parquet_folder(path, request.page, request.page_size)
        ELSE IF h = "get_parquet_folder_column_info"
        THEN get_parquet_folder_column_info(path, request.page, request.page_size)
        ELSE read_directory(path)

\* the response the handler of the request gives when the request is handled
\* alone, from the request and the files
HandledAlone == HandlerResponse(request.item_path)

\* a step taken after startup leaves the catalog and the route table as they are
CatalogAndRoutesKept ==
    pc \in {"serving", "responded"} =>
        (args' = args /\ items' = items /\ include_schema_cols' = include_schema_cols
         /\ routes' = routes)

ListingIsSortedDirectChildren ==
    response.kind = "listing" =>
        LET children == Lookup(request.item_path).children
            contents == response.data
        IN  /\ request.handler = "read_directory"
            /\ Len(contents) = Len(children)
            /\ \A k \in 1..Len(children) :
                   Cardinality({i \in 1..Len(contents) :
                                   contents[i].name = children[k].name}) = 1
            /\ \A i, j \in 1..Len(contents) :
                   i < j => NameLess(contents[i].name, contents[j].name)
            /\ \A i \in 1..Len(contents) :
                   /\ contents[i].type \in {"file", "directory"}
                   /\ contents[i].type = "file" <=> IsFile(contents[i].path)
                   /\ contents[i].path = request.item_path \o <<contents[i].name>>
            /\ request.page = 0 /\ request.page_size = 0
            /\ response = [BlankResponse EXCEPT !.kind = "listing", !.data = contents]

\* C22 witness: a listing of three entries, which iterdir() yields in another
\* order, one of them a folder whose own entry is not listed
ListingOfFolderWithSubfolder ==
    /\ pc = "responded"
    /\ response.kind = "listing"
    /\ Len(response.data) = 3
    /\ response.data[1].name # Lookup(request.item_path).children[1].name
    /\ \E i \in 1..3 : /\ response.data[i].type = "directory"
                        /\ Lookup(response.data[i].path).children # <<>>

RECURSIVE SumRange(_, _, _)
\* ns[lo] + ... + ns[hi]
SumRange(ns, lo, hi) ==
    IF lo > hi THEN 0
    ELSE IF lo = hi THEN ns[lo]
    ELSE SumRange(ns, lo, (lo + hi) \div 2) + SumRange(ns, ((lo + hi) \div 2) + 1, hi)

RECURSIVE StructuralCount(_)
\* the structural count: a mapping counts the sum of the counts of its values,
\* a sequence its length plus the counts of its elements, a scalar 1
StructuralCount(o) ==
    IF o.t = "scalar" THEN 1
    ELSE (IF o.t = "list" THEN Len(o.v) ELSE 0)
         + SumRange([i \in 1..Len(o.v) |-> StructuralCount(o.v[i])], 1, Len(o.v))

\* the largest number of a set of naturals, 0 for the empty set
Largest(S) == IF S = {} THEN 0 ELSE CHOOSE m \in S : \A x \in S : x <= m

\* C23 as claimed: _count_json_items returns the structural count of the
\* document and, as maxNested, the length of a top-level sequence and for a
\* top-level mapping the largest structural count among its values.
CountsWithLargestOfAllValues ==
    JsonDocumentServed =>
        LET d == Lookup(request.item_path).json.doc
            counted == _count_json_items(d)
        IN  /\ counted.total = StructuralCount(d)
            /\ d.t = "list" => counted.max_nested = Len(d.v)
            /\ d.t = "dict" =>
                   counted.max_nested =
                       Largest({StructuralCount(d.v[i]) : i \in 1..Len(d.v)})

\* C23: _count_json_items returns the structural count of the document (a
\* mapping counts the sum of the counts of its values, a sequence its length
\* plus the counts of its elements, a scalar 1) and, as maxNested, the length
\* of a top-level sequence, for a top-level mapping the largest structural
\* count among its values that are mappings or sequences (0 when it has
\* none), and 0 for a top-level scalar; the bypass response reports that total.
CountsWithLargestOfCollectionValues ==
    JsonDocumentServed =>
        LET d == Lookup(request.item_path).json.doc
            counted == _count_json_items(d)
        IN  /\ counted.total = StructuralCount(d)
            /\ d.t = "list" => counted.max_nested = Len(d.v)
            /\ d.t = "dict" =>
                   counted.max_nested =
                       Largest({StructuralCount(d.v[i]) :
                                   i \in {j \in 1..Len(d.v) : d.v[j].t # "scalar"}})
            /\ d.t = "scalar" => counted.max_nested = 0
            /\ response.kind = "json_full" => response.total = counted.total

\* C23 witness: a mapping of two scalars is served: its total is 2 and its
\* maxNested 0, though each value counts 1
FlatMappingCounted ==
    /\ JsonDocumentServed
    /\ Lookup(request.item_path).json.doc.t = "dict"
    /\ \A i \in 1..Len(Lookup(request.item_path).json.doc.v) :
           Lookup(request.item_path).json.doc.v[i].t = "scalar"
    /\ response.total = 2
    /\ _count_json_items(Lookup(request.item_path).json.doc).max_nested = 0

\* C24: outside the bypass a top-level list is paged element by element with
\* total its length; a top-level mapping or scalar is one row: total is 1,
\* page 1 returns the whole document as that row, and every later page returns
\* no row with has_next false; no JSON data response reports columns.
LargeJsonPagedOrWrapped ==
    JsonDocumentServed =>
        LET d == Lookup(request.item_path).json.doc
            offset == RequestOffset
        IN  /\ response.kind \in {"json_full", "json_page"}
            /\ response.columns = <<>>
            /\ (response.kind = "json_page" /\ d.t = "list") =>
                   /\ response.total = Len(d.v)
                   /\ Len(response.data) = Min(request.page_size, Max(0, Len(d.v) - offset))
                   /\ \A k \in 1..Len(response.data) : response.data[k] = d.v[offset + k]
            /\ (response.kind = "json_page" /\ d.t # "list") =>
                   /\ response.total = 1
                   /\ request.page = 1 => response.data = <<d>>
                   /\ request.page >= 2 => response.data = <<>> /\ ~response.has_next

\* C24 witness: page 2 of a large mapping is answered with no row, total 1 and
\* has_next false
LargeMappingSecondPageEmpty ==
    /\ JsonDocumentServed
    /\ response.kind = "json_page"
    /\ Lookup(request.item_path).json.doc.t = "dict"
    /\ request.page = 2
    /\ response.data = <<>>
    /\ response.total = 1
    /\ ~response.has_next

\* the request is a data request for a CSV, TSV, TXT or Parquet file or for a
\* Parquet folder, and its handler has run
TabularDataRequestHandled ==
    /\ pc = "responded"
    /\ response.kind # "rejected"
    /\ \/ request.handler = "read_parquet_folder"
       \/ /\ request.handler = "read_file"
          /\ PathSuffix(request.item_path) \in {ExtCsv, ExtTsv, ExtTxt, ExtParquet}

\* C25: a data request for a CSV, TSV, TXT or Parquet file or for a Parquet
\* folder issues the count query and then the LIMIT/OFFSET query, each once and
\* in this order on one connection; when the count query fails the page query
\* is not issued and the request fails.
CountQueryThenPageQuery ==
    TabularDataRequestHandled =>
        IF ExecCount(RequestedTable).ok
        THEN calls = <<"connect", "count", "page">>
        ELSE calls = <<"connect", "count">> /\ response = ErrorResponse

\* C25 witness: the count query of a request has failed, and the request has
\* failed without a page query
CountFailedWithoutPageQuery ==
    /\ TabularDataRequestHandled
    /\ ~ExecCount(RequestedTable).ok
    /\ calls = <<"connect", "count">>
    /\ response.kind = "error"

\* C26 as claimed: whatever query parameters a request carries, its handler
\* reads the catalog item bound to the route at registration and takes the
\* format branch of that item: item_path is never taken from the request.
HandlerReadsBoundItem ==
    (pc = "responded" /\ response.kind # "rejected") =>
        /\ request.item_path = request.item
        /\ response = HandlerResponse(request.item)
        /\ calls = HandlerCalls(request.handler, request.item)

\* C27: for every JSON document max_nested is at most the total, so that the
\* bypass condition is the same as total <= 100: the document is returned
\* whole exactly when its total is at most 100.
MaxNestedAtMostTotal ==
    JsonDocumentServed =>
        LET counted == _count_json_items(Lookup(request.item_path).json.doc)
        IN  /\ counted.max_nested <= counted.total
            /\ IsSmallJson(counted.total, counted.max_nested) <=>
                   counted.total <= JsonSmallLimit
            /\ response.kind = "json_full" <=> counted.total <= JsonSmallLimit

\* C27 witness: a list whose length and total are both the limit is returned
\* whole
ListAtLimitReturnedWhole ==
    /\ JsonDocumentServed
    /\ response.kind = "json_full"
    /\ _count_json_items(Lookup(request.item_path).json.doc) =
           [total |-> JsonSmallLimit, max_nested |-> JsonSmallLimit]

\* C28 as claimed: whenever run_fastapi passes its check for an empty catalog
\* and serves, at least one /data/ route is registered.
ServingHasDataRoute ==
    (args # NoArgs /\ pc \in {"serving", "responded"}) => routes # <<>>

\* C29 as claimed: every item _get_items_to_process returns is a direct child
\* of the data source, for given names as for the scan; a given name with a
\* path separator selects nothing below the first level.
CatalogItemsAreDirectChildren ==
    CatalogBuilt =>
        \A i \in 1..Len(items) :
            /\ Len(items[i]) = 1
            /\ \E k \in 1..Len(DataSource(args.path_data).children) :
                   DataSource(args.path_data).children[k].name = items[i][1]

\* C30 as claimed: the total and the rows of a tabular data response are of one
\* state of the source, even when a writer adds or removes rows between the
\* count query and the page query: count is
\* min(page_size, max(0, total - offset)), and a response that announces a
\* next page is full.
TotalAndRowsOfOneState ==
    response.kind = "table" =>
        /\ response.count = Min(request.page_size, Max(0, response.total - RequestOffset))
        /\ Len(response.data) = response.count
        /\ response.has_next => response.count = request.page_size

====
